---- MODULE Spec2Model ----
(***************************************************************************)
(* Keyword-extraction-and-ranking pipeline of the ecommerce keyword        *)
(* analyzer scripts (12.py, keword.py, yedek.py, templates/grok-1.py,      *)
(* keyword2.py, kalite.py).                                                *)
(*                                                                         *)
(* A word is a sequence of one-character strings, so that lower-casing,    *)
(* prefix tests and substring tests are computed and not assumed.  A text  *)
(* is given by its maximal runs of word characters (what re.findall of     *)
(* \b\w+\b or str.split yields before any further processing).             *)
(***************************************************************************)
EXTENDS Integers, Sequences, FiniteSets, TLC

(***************************************************************************)
(* Bounds of the model.                                                    *)
(***************************************************************************)
\* longest item sequence handed to the frequency ranker / n-gram builder
MaxLen == 5
\* largest cutoff K handed to the frequency ranker as a free input
MaxK == 3
\* longest token sequence handed to the stop-word filter as a free input
MaxFilterLen == 3
\* longest candidate text (in characters) handed to detect_purchase_intent
MaxTextLen == 3
\* most organic results in a search response whose results are drawn freely
MaxResults == 1
\* longest text (in characters) handed to kalite.py's extract_keywords
MaxRawLen == 5
\* longest token stream behind a candidate list handed to the filters of index
MaxStreamLen == 3

(***************************************************************************)
(* Vocabulary: words as character sequences.                               *)
(***************************************************************************)
w_ve == <<"v", "e">>
w_de == <<"d", "e">>
w_ver == <<"v", "e", "r">>
w_ev == <<"e", "v">>
w_ucuz == <<"u", "c", "u", "z">>
w_Ucuz == <<"U", "c", "u", "z">>
w_evi == <<"e", "v", "i">>
w_bahis == <<"b", "a", "h", "i", "s">>
w_iddaa == <<"i", "d", "d", "a", "a">>
w_kumar == <<"k", "u", "m", "a", "r">>
w_mavibet == <<"m", "a", "v", "i", "b", "e", "t">>
w_kim == <<"k", "i", "m">>
w_kime == <<"k", "i", "m", "e">>
w_araba == <<"a", "r", "a", "b", "a">>

Min(a, b) == IF a < b THEN a ELSE b
Max(a, b) == IF a < b THEN b ELSE a
Range(s) == {s[i] : i \in 1..Len(s)}

\* all sequences over S of length 0..n
RECURSIVE SeqsUpTo(_, _)
SeqsUpTo(S, n) ==
    IF n = 0 THEN {<<>>}
    ELSE LET shorter == SeqsUpTo(S, n - 1)
         IN  shorter \cup {Append(s, x) : s \in {t \in shorter : Len(t) = n - 1}, x \in S}

(***************************************************************************)
(* str.lower(), on the letters the model uses.                             *)
(***************************************************************************)
LowerChar(c) ==
    CASE c = "A" -> "a"
      [] c = "B" -> "b"
      [] c = "E" -> "e"
      [] c = "U" -> "u"
      [] c = "V" -> "v"
      [] OTHER -> c

lower(text) == [i \in 1..Len(text) |-> LowerChar(text[i])]

\* Python's "needle in haystack" for strings
IsSubstring(needle, haystack) ==
    \E i \in 0..(Len(haystack) - Len(needle)) :
        \A j \in 1..Len(needle) : haystack[i + j] = needle[j]

\* " ".join(words)
RECURSIVE join(_)
join(words) ==
    IF Len(words) = 0 THEN <<>>
    ELSE IF Len(words) = 1 THEN words[1]
    ELSE words[1] \o <<" ">> \o join(Tail(words))

(***************************************************************************)
(* The stop-word set: set(stopwords.words('turkish')), of which the model  *)
(* keeps "ve", "de" and "kim".                                             *)
(***************************************************************************)
stop_words == {w_ve, w_de, w_kim}

\* a filter that would also drop the words a stop word is a prefix of
RECURSIVE FilterStopWordsPrefix(_)
FilterStopWordsPrefix(words) ==
    IF words = <<>> THEN <<>>
    ELSE LET w == Head(words)
             hit == \E s \in stop_words :
                        Len(s) <= Len(w) /\ SubSeq(w, 1, Len(s)) = s
         IN  (IF hit THEN <<>> ELSE <<w>>) \o FilterStopWordsPrefix(Tail(words))

\* [word for word in words if word not in self.stop_words]
RECURSIVE FilterStopWords(_)
FilterStopWords(words) ==
    IF words = <<>> THEN <<>>
    ELSE (IF Head(words) \notin stop_words THEN <<Head(words)>> ELSE <<>>)
         \o FilterStopWords(Tail(words))

(***************************************************************************)
(* collections.Counter: a dict in insertion order, here a sequence of      *)
(* [item, count] entries in order of first insertion.                      *)
(***************************************************************************)
RECURSIVE CounterAdd(_, _)
CounterAdd(counter, elem) ==
    IF counter = <<>> THEN << [item |-> elem, count |-> 1] >>
    ELSE IF Head(counter).item = elem
         THEN << [item |-> elem, count |-> Head(counter).count + 1] >> \o Tail(counter)
         ELSE << Head(counter) >> \o CounterAdd(Tail(counter), elem)

RECURSIVE CounterFrom(_, _)
CounterFrom(counter, items) ==
    IF items = <<>> THEN counter
    ELSE CounterFrom(CounterAdd(counter, Head(items)), Tail(items))

Counter(items) == CounterFrom(<<>>, items)

\* insertion of one entry into a sequence sorted by count descending; an entry
\* goes after every entry whose count is at least its own (stable)
RECURSIVE InsertByCount(_, _)
InsertByCount(sorted, e) ==
    IF sorted = <<>> THEN <<e>>
    ELSE IF Head(sorted).count >= e.count
         THEN << Head(sorted) >> \o InsertByCount(Tail(sorted), e)
         ELSE <<e>> \o sorted

\* the same, but an entry goes before the entries of equal count
RECURSIVE InsertByCountUnstable(_, _)
InsertByCountUnstable(sorted, e) ==
    IF sorted = <<>> THEN <<e>>
    ELSE IF Head(sorted).count > e.count
         THEN << Head(sorted) >> \o InsertByCountUnstable(Tail(sorted), e)
         ELSE <<e>> \o sorted

RECURSIVE SortedByCountFrom(_, _)
SortedByCountFrom(sorted, entries) ==
    IF entries = <<>> THEN sorted
    ELSE SortedByCountFrom(InsertByCount(sorted, Head(entries)), Tail(entries))

\* sorted(counter.items(), key=count, reverse=True): stable
SortedByCount(counter) == SortedByCountFrom(<<>>, counter)

RECURSIVE SortedByCountUnstableFrom(_, _)
SortedByCountUnstableFrom(sorted, entries) ==
    IF entries = <<>> THEN sorted
    ELSE SortedByCountUnstableFrom(InsertByCountUnstable(sorted, Head(entries)),
                                   Tail(entries))

\* a ranker that cuts the counter off without ordering it by count
most_common_unsorted(counter, n) == SubSeq(counter, 1, Min(n, Len(counter)))

\* a ranker whose ties come out in reverse order of first appearance
most_common_unstable(counter, n) ==
    LET sorted == SortedByCountUnstableFrom(<<>>, counter)
    IN  SubSeq(sorted, 1, Min(n, Len(sorted)))

\* Counter.most_common(n) = heapq.nlargest(n, items, key=count), which is
\* sorted(items, key=count, reverse=True)[:n]
most_common(counter, n) ==
    LET sorted == SortedByCount(counter)
    IN  SubSeq(sorted, 1, Min(n, Len(sorted)))

(***************************************************************************)
(* nltk.ngrams(sequence, n): zip of the n copies of the sequence, the j-th *)
(* advanced by j-1 items; it stops with the shortest copy.                 *)
(***************************************************************************)
Advance(s, k) == IF k >= Len(s) THEN <<>> ELSE SubSeq(s, k + 1, Len(s))

\* a builder that loses the last window
ngrams_short(sequence, n) ==
    [i \in 1..Len(Advance(sequence, n)) |->
        [j \in 1..n |-> Advance(sequence, j - 1)[i]]]

ngrams(sequence, n) ==
    [i \in 1..Len(Advance(sequence, n - 1)) |->
        [j \in 1..n |-> Advance(sequence, j - 1)[i]]]

(***************************************************************************)
(* Purchase-intent detection.                                              *)
(***************************************************************************)
w_satin_al == <<"s", "a", "t", "i", "n", " ", "a", "l">>
w_fiyat == <<"f", "i", "y", "a", "t">>
w_indirim == <<"i", "n", "d", "i", "r", "i", "m">>
w_siparis == <<"s", "i", "p", "a", "r", "i", "s">>
w_kargo == <<"k", "a", "r", "g", "o">>
w_stok == <<"s", "t", "o", "k">>

intent_keywords == <<w_satin_al, w_fiyat, w_indirim, w_ucuz, w_siparis, w_kargo, w_stok>>

\* any(intent in keyword_phrase.lower() for intent in intents)
detect_intent(keyword_phrase, intents) ==
    \E i \in 1..Len(intents) : IsSubstring(intents[i], lower(keyword_phrase))

detect_purchase_intent(keyword_phrase) == detect_intent(keyword_phrase, intent_keywords)

(***************************************************************************)
(* kalite.py: the filter of extract_keywords.                              *)
(***************************************************************************)
Whitespace == {" "}
Punctuation == {","}

\* \w of the regular expressions: letters, digits and the underscore
IsWordChar(c) == c \notin Whitespace \cup Punctuation

\* str.isalnum() of one character
isalnum(c) == IsWordChar(c) /\ c # "_"

KeepKeyword(word, min_word_length) ==
    /\ Len(word) >= min_word_length
    /\ \E i \in 1..Len(word) : isalnum(word[i])
    /\ word \notin stop_words

RECURSIVE FilterKeywords(_, _)
FilterKeywords(words, min_word_length) ==
    IF words = <<>> THEN <<>>
    ELSE (IF KeepKeyword(Head(words), min_word_length) THEN <<Head(words)>> ELSE <<>>)
         \o FilterKeywords(Tail(words), min_word_length)

(***************************************************************************)
(* Python values.  A dict is a function whose DOMAIN is the set of its     *)
(* keys; None, a str and an int are told apart by their one field.         *)
(***************************************************************************)
EmptyDict == [k \in {} |-> 0]

None == [none |-> TRUE]
PyStr(s) == [str |-> s]
PyInt(n) == [int |-> n]

IsStr(v) == "str" \in DOMAIN v
IsInt(v) == "int" \in DOMAIN v

\* bool(v) of None and of a str
Truthy(v) == IsStr(v) /\ v.str # <<>>

HasKey(d, k) == k \in DOMAIN d

\* d.get(k, default)
Get(d, k, default) == IF k \in DOMAIN d THEN d[k] ELSE default

RECURSIVE Flatten(_)
Flatten(seqs) == IF seqs = <<>> THEN <<>> ELSE Head(seqs) \o Flatten(Tail(seqs))

(***************************************************************************)
(* Tokenizers.                                                             *)
(***************************************************************************)
\* the maximal runs of characters of text that are not separators; run is the
\* run being read
RECURSIVE Runs(_, _, _)
Runs(text, separators, run) ==
    IF text = <<>> THEN (IF run = <<>> THEN <<>> ELSE <<run>>)
    ELSE IF Head(text) \in separators
         THEN (IF run = <<>> THEN <<>> ELSE <<run>>) \o Runs(Tail(text), separators, <<>>)
         ELSE Runs(Tail(text), separators, Append(run, Head(text)))

\* re.findall(r'\b\w+\b', text)
findall_words(text) == Runs(text, Whitespace \cup Punctuation, <<>>)

\* text.split()
split(text) == Runs(text, Whitespace, <<>>)

\* word.isalnum()
str_isalnum(word) == word # <<>> /\ \A i \in 1..Len(word) : isalnum(word[i])

RECURSIVE SelectAlnumLower(_)
SelectAlnumLower(words) ==
    IF words = <<>> THEN <<>>
    ELSE (IF str_isalnum(Head(words)) THEN <<lower(Head(words))>> ELSE <<>>)
         \o SelectAlnumLower(Tail(words))

\* kalite.py: clean_text.  text.lower(); re.sub(r'[^\w\s]', ' ', text);
\* ' '.join(text.split())
clean_text(text) ==
    LET lowered == lower(text)
        spaced == [i \in 1..Len(lowered) |->
                      IF lowered[i] \in Punctuation THEN " " ELSE lowered[i]]
    IN  join(split(spaced))

\* nltk's word_tokenize, on a cleaned text (word characters and single blanks)
word_tokenize(text) == split(text)

\* an extract_keywords whose fallback returns the words of the split as they are
extract_keywords_raw_fallback(text, tokenize_raises, min_word_length) ==
    IF tokenize_raises THEN split(clean_text(text))
    ELSE FilterKeywords(word_tokenize(clean_text(text)), min_word_length)

\* kalite.py: extract_keywords; tokenize_raises: self.word_tokenize raises, and
\* the words are those of clean_text.split()
extract_keywords(text, tokenize_raises, min_word_length) ==
    LET cleaned == clean_text(text)
        words == IF tokenize_raises THEN split(cleaned) ELSE word_tokenize(cleaned)
    IN  FilterKeywords(words, min_word_length)

\* keyword2.py, grok-1.py: preprocess_text
preprocess_text(text) == FilterStopWords(SelectAlnumLower(split(text)))

(***************************************************************************)
(* The stemmer (trnlp): the stem of a word, or the empty string.           *)
(***************************************************************************)
get_stem(word) ==
    CASE word = w_evi -> w_ev
      [] word = w_kime -> w_kim
      [] word = w_ucuz -> <<>>
      [] OTHER -> word

\* a setword that leaves a word that is already set alone
setword_once(trnlp, word) == IF trnlp = None THEN word ELSE trnlp

\* self.trnlp.setword(word): the word the one TrnlpWord object of the analyzer
\* holds afterwards (trnlp is the word it held before)
setword(trnlp, word) == word

\* `self.trnlp.get_stem or word`; stemmed is what the stemmer did:
\* [raised, stem].  lemmatize_word has no try: what the stemmer raises, it raises
stem_or_word(word, stemmed) ==
    IF stemmed.raised THEN [raised |-> TRUE, value |-> <<>>]
    ELSE [raised |-> FALSE, value |-> IF stemmed.stem # <<>> THEN stemmed.stem ELSE word]

\* lemmatize_word: [trnlp, value], the object afterwards and the word returned;
\* get_stem reads the word the object holds
lemmatize_word(trnlp, word) ==
    LET held == setword(trnlp, word)
    IN  [trnlp |-> held,
         value |-> stem_or_word(word, [raised |-> FALSE, stem |-> get_stem(held)]).value]

\* [self.lemmatize_word(word) for word in keywords]: [trnlp, keywords]
RECURSIVE LemmatizeAll(_, _)
LemmatizeAll(trnlp, keywords) ==
    IF keywords = <<>> THEN [trnlp |-> trnlp, keywords |-> <<>>]
    ELSE LET first == lemmatize_word(trnlp, Head(keywords))
             rest == LemmatizeAll(first.trnlp, Tail(keywords))
         IN  [trnlp |-> rest.trnlp, keywords |-> <<first.value>> \o rest.keywords]

(***************************************************************************)
(* extract_keywords_from_results.  The texts of a response, in the order   *)
(* the loops read them; a related question without "question" raises       *)
(* KeyError in every variant, a related search without "query" raises it   *)
(* in the variants that do not test for the key.                           *)
(***************************************************************************)
RECURSIVE OrganicTexts(_)
OrganicTexts(organic_results) ==
    IF organic_results = <<>> THEN <<>>
    ELSE LET result == Head(organic_results)
         IN  (IF HasKey(result, "snippet") THEN <<result.snippet>> ELSE <<>>)
             \o (IF HasKey(result, "title") THEN <<result.title>> ELSE <<>>)
             \o OrganicTexts(Tail(organic_results))

RECURSIVE KeyedTexts(_, _)
KeyedTexts(entries, key) ==
    IF entries = <<>> THEN <<>>
    ELSE (IF HasKey(Head(entries), key) THEN <<Head(entries)[key]>> ELSE <<>>)
         \o KeyedTexts(Tail(entries), key)

MissesKey(entries, key) == \E i \in 1..Len(entries) : ~HasKey(entries[i], key)

ExtractRaises(search_results, guards_query) ==
    \/ MissesKey(Get(search_results, "related_questions", <<>>), "question")
    \/ ~guards_query /\ MissesKey(Get(search_results, "related_searches", <<>>), "query")

ResponseTexts(search_results) ==
    OrganicTexts(Get(search_results, "organic_results", <<>>))
    \o KeyedTexts(Get(search_results, "related_questions", <<>>), "question")
    \o KeyedTexts(Get(search_results, "related_searches", <<>>), "query")

RECURSIVE RegexTokens(_)
RegexTokens(texts) ==
    IF texts = <<>> THEN <<>>
    ELSE findall_words(lower(Head(texts))) \o RegexTokens(Tail(texts))

RECURSIVE PreprocessedTokens(_)
PreprocessedTokens(texts) ==
    IF texts = <<>> THEN <<>>
    ELSE preprocess_text(Head(texts)) \o PreprocessedTokens(Tail(texts))

\* 12.py, keword.py (guards_query = FALSE), yedek.py (guards_query = TRUE)
extract_keywords_regex(search_results, guards_query) ==
    IF DOMAIN search_results = {} THEN [raised |-> FALSE, keywords |-> <<>>]
    ELSE IF ExtractRaises(search_results, guards_query)
         THEN [raised |-> TRUE, keywords |-> <<>>]
         ELSE [raised |-> FALSE, keywords |-> RegexTokens(ResponseTexts(search_results))]

\* keyword2.py, grok-1.py: [raised, keywords, trnlp]
extract_keywords_stemmed(trnlp, search_results) ==
    IF DOMAIN search_results = {} THEN [raised |-> FALSE, keywords |-> <<>>, trnlp |-> trnlp]
    ELSE IF ExtractRaises(search_results, TRUE)
         THEN [raised |-> TRUE, keywords |-> <<>>, trnlp |-> trnlp]
         ELSE [raised |-> FALSE]
              @@ LemmatizeAll(trnlp, PreprocessedTokens(ResponseTexts(search_results)))

(***************************************************************************)
(* Cutoffs of the frequency ranker.                                        *)
(***************************************************************************)
\* 12.py: most_common(5) words, most_common(3) bigrams and trigrams
TopWords12 == 5
TopNgrams12 == 3
\* keword.py, yedek.py, grok-1.py, keyword2.py: most_common(10), most_common(5)
TopWords == 10
TopNgrams == 5
\* suggest_keywords: most_common(3)
TopSuggestions == 3

\* rankings whose n-grams are windows over the distinct tokens
Rank_distinct(tokens, top_words, top_ngrams) ==
    LET counted == Counter(tokens)
        distinct == [i \in 1..Len(counted) |-> counted[i].item]
    IN  [most_common_keywords |-> most_common(counted, top_words),
         most_common_bigrams |-> most_common(Counter(ngrams(distinct, 2)), top_ngrams),
         most_common_trigrams |-> most_common(Counter(ngrams(distinct, 3)), top_ngrams)]

\* the three rankings of analyze_keywords over one token stream
Rank(tokens, top_words, top_ngrams) ==
    [most_common_keywords |-> most_common(Counter(tokens), top_words),
     most_common_bigrams |-> most_common(Counter(ngrams(tokens, 2)), top_ngrams),
     most_common_trigrams |-> most_common(Counter(ngrams(tokens, 3)), top_ngrams)]

(***************************************************************************)
(* The synonym table, of which the model keeps the entry of "mavibet", and *)
(* the sentinel that stands for the count of a synonym entry.              *)
(***************************************************************************)
synonym_dict == [k \in {w_mavibet} |-> <<w_bahis, w_iddaa, w_kumar>>]

Sentinel == PyStr("es anlamli")

SynonymsOf(keyword) == IF keyword \in DOMAIN synonym_dict THEN synonym_dict[keyword] ELSE <<>>

\* a lookup that enters the keyword in the table: table.setdefault(keyword, [])
looked_up_setdefault(table, keyword) ==
    IF keyword \in DOMAIN table THEN table ELSE [k \in {keyword} |-> <<>>] @@ table

\* the table after `if keyword in self.synonym_dict: ... self.synonym_dict[keyword]`:
\* the test and the subscription only read it
looked_up(table, keyword) == table

(***************************************************************************)
(* potential_keywords of each variant: the entries of the top words, of    *)
(* the top bigrams and of the top trigrams, in that order, and then (in    *)
(* yedek.py, grok-1.py and keyword2.py) the synonym entries.               *)
(***************************************************************************)
\* keword.py
potential_keywords_keword(ranked) ==
    LET words == ranked.most_common_keywords
        bigrams == ranked.most_common_bigrams
        trigrams == ranked.most_common_trigrams
    IN  [i \in 1..Len(words) |->
            [keyword |-> words[i].item, count |-> PyInt(words[i].count)]]
        \o [i \in 1..Len(bigrams) |->
            [keyword |-> join(bigrams[i].item), count |-> PyInt(bigrams[i].count)]]
        \o [i \in 1..Len(trigrams) |->
            [keyword |-> join(trigrams[i].item), count |-> PyInt(trigrams[i].count)]]

\* a yedek.py that puts the synonym entries first
potential_keywords_yedek_front(ranked, keyword) ==
    LET synonyms == SynonymsOf(keyword)
    IN  [i \in 1..Len(synonyms) |-> [keyword |-> synonyms[i], count |-> Sentinel]]
        \o potential_keywords_keword(ranked)

\* yedek.py
potential_keywords_yedek(ranked, keyword) ==
    LET synonyms == SynonymsOf(keyword)
    IN  potential_keywords_keword(ranked)
        \o [i \in 1..Len(synonyms) |-> [keyword |-> synonyms[i], count |-> Sentinel]]

\* get_google_trends_data: int(mean) when the trend provider answers with data,
\* 0 when it answers with none or fails
get_google_trends_data(word, trends) == IF trends = "data" THEN Len(word) ELSE 0

\* 12.py
potential_keywords_12(ranked, trends) ==
    LET plain == potential_keywords_keword(ranked)
    IN  [i \in 1..Len(plain) |->
            [keyword |-> plain[i].keyword, count |-> plain[i].count,
             trend_volume |-> get_google_trends_data(plain[i].keyword, trends)]]

\* grok-1.py
potential_keywords_grok1(ranked, keyword) ==
    LET words == ranked.most_common_keywords
        bigrams == ranked.most_common_bigrams
        trigrams == ranked.most_common_trigrams
        synonyms == SynonymsOf(keyword)
    IN  [i \in 1..Len(words) |->
            [keyword |-> words[i].item, count |-> PyInt(words[i].count), type |-> "single"]]
        \o [i \in 1..Len(bigrams) |->
            [keyword |-> join(bigrams[i].item), count |-> PyInt(bigrams[i].count),
             type |-> "bigram"]]
        \o [i \in 1..Len(trigrams) |->
            [keyword |-> join(trigrams[i].item), count |-> PyInt(trigrams[i].count),
             type |-> "trigram"]]
        \o [i \in 1..Len(synonyms) |->
            [keyword |-> synonyms[i], count |-> Sentinel, type |-> "synonym"]]

\* the entries of keyword2.py, each with its purchase-intent annotation
AnnotatedEntries(ranked, keyword) ==
    LET plain == potential_keywords_grok1(ranked, keyword)
    IN  [i \in 1..Len(plain) |->
            [keyword |-> plain[i].keyword, count |-> plain[i].count, type |-> plain[i].type,
             purchase_intent |-> detect_purchase_intent(plain[i].keyword)]]

\* a keyword2.py that lists the entries with purchase intent before the others
potential_keywords_intent_first(ranked, keyword) ==
    LET entries == AnnotatedEntries(ranked, keyword)
        IntentIs(b) == {i \in 1..Len(entries) : entries[i].purchase_intent = b}
        SubList(b) == [i \in 1..Cardinality(IntentIs(b)) |->
                          entries[CHOOSE k \in IntentIs(b) :
                                      Cardinality({j \in IntentIs(b) : j < k}) = i - 1]]
    IN  SubList(TRUE) \o SubList(FALSE)

\* keyword2.py
potential_keywords_keyword2(ranked, keyword) == AnnotatedEntries(ranked, keyword)

(***************************************************************************)
(* index: the filter of the candidates by the "filter" field of the form.  *)
(***************************************************************************)
FilterTypes == {"all", "single", "bigram", "trigram"}

\* the word count the filter of yedek.py asks of an entry
FilterWordCount(filter_type) ==
    CASE filter_type = "single" -> 1
      [] filter_type = "bigram" -> 2
      [] filter_type = "trigram" -> 3

\* yedek.py: len(result["keyword"].split()) == 1, 2 or 3
index_filter_yedek(analysis_results, filter_type) ==
    IF filter_type = "all" THEN analysis_results
    ELSE LET Selected(r) == Len(split(r.keyword)) = FilterWordCount(filter_type)
         IN  SelectSeq(analysis_results, Selected)

\* grok-1.py, keyword2.py: r["type"] == filter_type
index_filter_typed(keywords, filter_type) ==
    IF filter_type = "all" THEN keywords
    ELSE LET Selected(r) ==
                 \/ r.type = filter_type
                 \/ filter_type = "single" /\ r.type = "single"
         IN  SelectSeq(keywords, Selected)

(***************************************************************************)
(* keyword2.py: competitor domains.                                        *)
(***************************************************************************)
StartsWith(s, prefix) == Len(prefix) <= Len(s) /\ SubSeq(s, 1, Len(prefix)) = prefix

\* s.replace(old, "")
RECURSIVE remove_all(_, _)
remove_all(s, old) ==
    IF s = <<>> THEN <<>>
    ELSE IF StartsWith(s, old) THEN remove_all(SubSeq(s, Len(old) + 1, Len(s)), old)
    ELSE <<Head(s)>> \o remove_all(Tail(s), old)

\* the characters of s before the first "/"
RECURSIVE UpToSlash(_)
UpToSlash(s) ==
    IF s = <<>> \/ Head(s) = "/" THEN <<>> ELSE <<Head(s)>> \o UpToSlash(Tail(s))

\* urlparse(link).netloc: what follows "//" after the scheme, up to the path
netloc(link) ==
    LET colon == {i \in 1..Len(link) : link[i] = ":"}
        rest == IF colon = {} THEN link
                ELSE SubSeq(link, (CHOOSE i \in colon : \A j \in colon : i <= j) + 1, Len(link))
    IN  IF StartsWith(rest, <<"/", "/">>) THEN UpToSlash(SubSeq(rest, 3, Len(rest))) ELSE <<>>

\* extract_domain_from_link
extract_domain_from_link(link) == remove_all(netloc(link), <<"w", "w", "w", ".">>)

\* calculate_competition
calculate_competition(search_results) ==
    IF DOMAIN search_results = {} \/ ~HasKey(search_results, "organic_results")
    THEN "Bilinmiyor"
    ELSE LET organic_results == search_results.organic_results
             domains == {Get(organic_results[i], "domain", <<>>) : i \in 1..Len(organic_results)}
         IN  IF Cardinality(domains) > 5 THEN "Yuksek" ELSE "Dusuk"

\* a suggest_keywords whose ranking puts the later of two tied words first
suggest_keywords_unstable(keywords) ==
    LET top == most_common_unstable(Counter(keywords), TopSuggestions)
    IN  [i \in 1..Len(top) |-> top[i].item]

\* suggest_keywords
suggest_keywords(keywords) ==
    LET top == most_common(Counter(keywords), TopSuggestions)
    IN  [i \in 1..Len(top) |-> top[i].item]

(***************************************************************************)
(* What the collaborators may answer.                                      *)
(***************************************************************************)
T_ucuz_ev == join(<<w_Ucuz, w_ev>>)
T_ev_ve_kime == join(<<w_ev \o <<",">>, w_ve, w_kime>>)
\* a related question: six different words
T_question == join(<<w_Ucuz, w_ev, w_araba, w_bahis, w_iddaa, w_kumar>>)

\* what a snippet may be, and what a title may be
Snippets == {T_ev_ve_kime}
Titles == {T_ucuz_ev}

Link == <<"h", ":", "/", "/", "w", "w", "w", ".", "d", "/", "p">>

\* a dict with the key, for each value, or without it
OptionalField(key, values) == {EmptyDict} \cup {[k \in {key} |-> v] : v \in values}

ResultItems ==
    {snippet @@ title @@ link :
        snippet \in OptionalField("snippet", Snippets),
        title \in OptionalField("title", Titles),
        link \in OptionalField("link", {Link})}

QuestionLists == {<< [question |-> T_question] >>, << [title |-> T_ucuz_ev] >>}

SearchLists == {<< [query |-> T_ev_ve_kime] >>, << [link |-> Link] >>}

\* the related questions and related searches of a response: neither, both
\* well formed, or one of them with an entry that lacks its text
RelatedSections ==
    {EmptyDict,
     [related_questions |-> << [question |-> T_question] >>,
      related_searches |-> << [query |-> T_ev_ve_kime] >>]}
    \cup {[related_questions |-> q] : q \in QuestionLists \ {<< [question |-> T_question] >>}}
    \cup {[related_searches |-> r] : r \in SearchLists \ {<< [query |-> T_ev_ve_kime] >>}}

\* response.json() of a search: the empty object, or an object with some of the
\* sections the scripts read: organic results alone, with each of their fields
\* present or absent, or related sections, alone or after one organic result
\* another page of the site of Link, and a link without scheme (no netloc)
LinkOtherPage == <<"h", ":", "/", "/", "d", "/", "q">>
LinkNoScheme == <<"w", "w", "w", ".", "d", "/", "p">>

\* responses with two results: of the same site, and of which one has no domain
LinkedResponses ==
    {[search_metadata |-> "Success",
      organic_results |-> << [link |-> Link], [link |-> other] >>] :
        other \in {LinkOtherPage, LinkNoScheme}}

\* the organic results that come together with related sections: none, or one
\* result with its three fields
SampleOrganic ==
    {EmptyDict,
     [organic_results |-> << [snippet |-> T_ev_ve_kime, title |-> T_ucuz_ev, link |-> Link] >>]}

Responses ==
    {EmptyDict}
    \cup {[search_metadata |-> "Success"] @@ organic :
            organic \in OptionalField("organic_results", SeqsUpTo(ResultItems, MaxResults))}
    \cup {[search_metadata |-> "Success"] @@ organic @@ related :
            organic \in SampleOrganic, related \in RelatedSections \ {EmptyDict}}
    \cup LinkedResponses

\* search_google: None when the request fails
SearchOutcomes == {[failed |-> TRUE, json |-> EmptyDict]}
                  \cup {[failed |-> FALSE, json |-> r] : r \in Responses}

\* scrape_amazon_suggestions: the stripped suggestion texts; [] when it fails
SuggestionLists == {<<>>, << join(<<w_ucuz, w_ev>>) >>, << <<>>, w_ev >>}

\* the trend provider: data, no data, or a failure
TrendOutcomes == {"data", "empty", "error"}

\* the answer to a "site:" search of analyze_competitor
CompetitorOutcomes ==
    {[failed |-> TRUE, json |-> EmptyDict],
     [failed |-> FALSE,
      json |-> [organic_results |-> << [snippet |-> T_ucuz_ev, title |-> T_ucuz_ev] >>]]}

ApiKeys == {None, PyStr(<<>>), PyStr(<<"K">>)}

Keywords == {w_mavibet, w_araba}

Variants == {"12", "keword", "yedek", "grok1", "keyword2", "kalite", "gelismis"}

\* gelismis.py: ddgs.text raises, or answers a list of results
DuckOutcomes ==
    {[failed |-> TRUE, results |-> <<>>]}
    \cup {[failed |-> FALSE, results |-> r] :
            r \in {<<>>, << [title |-> T_ucuz_ev] >>, << [title |-> T_ev_ve_kime], [href |-> Link] >>}}

\* gelismis.py: a scraper's request raises, or the page holds a list of elements
\* whose stripped texts these are
ScraperOutcomes ==
    {[failed |-> TRUE, texts |-> <<>>]}
    \cup {[failed |-> FALSE, texts |-> t] : t \in {<<>>, << join(<<w_ucuz, w_ev>>), w_ve >>}}

(***************************************************************************)
(* State.                                                                  *)
(*   analyzer  the KeywordAnalyzer object of the process: its script       *)
(*             (variant) and its serp_api_key; variant "none" before       *)
(*             construction and when construction was rejected             *)
(*   pc        "start", "rejected" (construction raised), "idle",          *)
(*             "returned" (analyze_keywords returned), "raised"            *)
(*   call      the call in progress: its arguments and what the            *)
(*             collaborators answer                                        *)
(*   locals    the local variables of analyze_keywords when it returned    *)
(*   result    what the call returned or raised                            *)
(*   requests  the requests sent to the collaborators during the call      *)
(*   fn_call   the pure function under test and its arguments              *)
(*   fn_ret    [done, value]: whether it was applied, and what it returned *)
(*   threads   the requests the web server is handling at the same time on  *)
(*             the one module-level analyzer: where each is in             *)
(*             analyze_keywords, and its local variables                   *)
(*   main      the __main__ block of a batch script: the keyword the loop  *)
(*             is at, where it is in the loop body, and the trace of the   *)
(*             search calls issued and the lines printed                   *)
(***************************************************************************)
VARIABLES analyzer, pc, call, locals, result, requests, fn_call, fn_ret, threads, main

vars == <<analyzer, pc, call, locals, result, requests, fn_call, fn_ret, threads,
         main>>

NoAnalyzer == [variant |-> "none", serp_api_key |-> None]
NoCall == [op |-> "none"]
NoResult == [returns |-> "nothing", value |-> <<>>]
NotApplied == [done |-> FALSE, value |-> <<>>]

Returned(kind, value) == [returns |-> kind, value |-> value]

\* the timeout= argument of the call that sends the request: search_google
\* passes timeout=10; session.get(url) of scrape_amazon_suggestions and
\* requests.get(url) of the gelismis.py scrapers pass none; the trend and
\* DuckDuckGo clients are called through their libraries, with no argument
request_timeout(to) == IF to = "serpapi" THEN PyInt(10) ELSE None

Request(to, q, api_key) ==
    [to |-> to, q |-> q, api_key |-> api_key, timeout |-> request_timeout(to)]

(***************************************************************************)
(* __init__.                                                               *)
(***************************************************************************)
\* key.strip(), of a key made of blanks and one other kind of character
strip(chars) == Flatten(Runs(chars, Whitespace, <<>>))

\* kalite.py: validate_api_key reads self.serp_api_key inside its try block;
\* self is the dict of the attributes set so far, status_200 whether the account
\* request answers 200
validate_api_key(self, status_200) ==
    IF ~HasKey(self, "serp_api_key") THEN FALSE ELSE status_200

\* kalite.py: __init__ up to the first assignment of an attribute
kalite_rejects(serp_api_key, status_200) ==
    \/ ~Truthy(serp_api_key)
    \/ Len(strip(serp_api_key.str)) = 0
    \/ ~validate_api_key(EmptyDict, status_200)

\* whether __init__ raises
init_raises(variant, serp_api_key, status_200) ==
    CASE variant \in {"12", "keword", "yedek", "grok1"} -> ~Truthy(serp_api_key)
      [] variant \in {"keyword2", "gelismis"} -> FALSE
      [] variant = "kalite" -> kalite_rejects(serp_api_key, status_200)

\* the object __init__ leaves: the tables it loads, and the stemmer and the
\* trend client it creates (None: no word set, no payload built), where the
\* script has them
new_analyzer(variant, serp_api_key) ==
    [variant |-> variant,
     \* gelismis.py: __init__ takes no key
     serp_api_key |-> IF variant = "gelismis" THEN None ELSE serp_api_key,
     stop_words |-> stop_words,
     synonym_dict |-> IF variant \in {"yedek", "grok1", "keyword2"} THEN synonym_dict
                      ELSE EmptyDict,
     trnlp |-> None,
     pytrends |-> None]

\* the keys handed to __init__; kalite.py strips its key, and is also given a
\* blank one; status_200 is recorded where a validation request is made of it
KeysFor(variant) == IF variant = "kalite" THEN ApiKeys \cup {PyStr(<<" ">>)} ELSE ApiKeys

Construct ==
    /\ pc = "start"
    /\ \E variant \in Variants, status_200 \in BOOLEAN :
       \E serp_api_key \in KeysFor(variant) :
        /\ call' = [op |-> "__init__", variant |-> variant, serp_api_key |-> serp_api_key]
                   @@ (IF variant = "kalite" THEN [status_200 |-> status_200]
                       ELSE EmptyDict)
        /\ IF init_raises(variant, serp_api_key, status_200)
           THEN /\ analyzer' = NoAnalyzer
                /\ result' = Returned("exception", "ValueError")
                /\ pc' = "rejected"
           ELSE /\ analyzer' = new_analyzer(variant, serp_api_key)
                /\ result' = NoResult
                /\ pc' = "idle"
    /\ UNCHANGED <<locals, requests, fn_call, fn_ret, threads, main>>

(***************************************************************************)
(* analyze_keywords.  Each operator gives what one call does:              *)
(* [requests, locals, result].                                             *)
(***************************************************************************)
\* self.pytrends.build_payload([keyword], ...): the keyword the one TrendReq
\* object of the analyzer holds afterwards (pytrends is the one it held before)
build_payload(pytrends, keyword) == keyword

\* get_trend_data after build_payload: interest_over_time() answers for the
\* payload the object holds, and the report tests `keyword in trend_data.columns`
interest_report(payload, keyword, trends) ==
    CASE trends = "data" /\ payload = keyword ->
             [status |-> "Mevcut", average_interest |-> Len(payload)]
      [] trends = "data" /\ payload # keyword -> [status |-> "Veri Yok"]
      [] trends = "empty" -> [status |-> "Veri Yok"]
      [] trends = "error" -> [status |-> "Hata"]

\* get_trend_data
get_trend_data(keyword, trends) ==
    interest_report(build_payload(None, keyword), keyword, trends)

search_request(self, q) == Request("serpapi", q, self.serp_api_key)

\* bool(search_results) is false: the search failed (None) or answered {}
NoSearchResults(search) == search.failed \/ DOMAIN search.json = {}

\* self is the analyzer object when the call is over
Done(self, reqs, vars_, res) ==
    [self |-> self, requests |-> reqs, locals |-> vars_, result |-> res]

\* keword.py
Analysis_keword(self, keyword, search) ==
    IF NoSearchResults(search)
    THEN Done(self, <<search_request(self, keyword)>>, EmptyDict, Returned("dict", EmptyDict))
    ELSE LET extracted == extract_keywords_regex(search.json, FALSE)
         IN  IF extracted.raised
             THEN Done(self, <<search_request(self, keyword)>>, EmptyDict,
                       Returned("exception", "KeyError"))
             ELSE LET filtered_keywords == FilterStopWords(extracted.keywords)
                      ranked == Rank(filtered_keywords, TopWords, TopNgrams)
                  IN  Done(self, <<search_request(self, keyword)>>,
                           [extracted_keywords |-> extracted.keywords,
                            filtered_keywords |-> filtered_keywords] @@ ranked,
                           Returned("list", potential_keywords_keword(ranked)))

\* yedek.py
Analysis_yedek(self, keyword, search) ==
    IF NoSearchResults(search)
    THEN Done(self, <<search_request(self, keyword)>>, EmptyDict,
              Returned("dict", [error |-> keyword]))
    ELSE LET extracted == extract_keywords_regex(search.json, TRUE)
         IN  IF extracted.raised
             THEN Done(self, <<search_request(self, keyword)>>, EmptyDict,
                       Returned("exception", "KeyError"))
             ELSE LET filtered_keywords == FilterStopWords(extracted.keywords)
                      ranked == Rank(filtered_keywords, TopWords, TopNgrams)
                      after == [self EXCEPT !.synonym_dict = looked_up(@, keyword)]
                  IN  Done(after, <<search_request(self, keyword)>>,
                           [extracted_keywords |-> extracted.keywords,
                            filtered_keywords |-> filtered_keywords] @@ ranked,
                           Returned("list", potential_keywords_yedek(ranked, keyword)))

\* 12.py
Analysis_12(self, keyword, search, amazon, trends) ==
    IF NoSearchResults(search)
    THEN Done(self, <<search_request(self, keyword)>>, EmptyDict, Returned("dict", EmptyDict))
    ELSE LET extracted == extract_keywords_regex(search.json, FALSE)
         IN  IF extracted.raised
             THEN Done(self, <<search_request(self, keyword)>>, EmptyDict,
                       Returned("exception", "KeyError"))
             ELSE LET filtered_keywords == FilterStopWords(extracted.keywords \o amazon)
                      ranked == Rank(filtered_keywords, TopWords12, TopNgrams12)
                      potential_keywords == potential_keywords_12(ranked, trends)
                      \* get_google_trends_data builds a payload for each candidate
                      after == IF potential_keywords = <<>> THEN self
                               ELSE [self EXCEPT !.pytrends =
                                        build_payload(self.pytrends,
                                            potential_keywords[Len(potential_keywords)].keyword)]
                  IN  Done(after, <<search_request(self, keyword), Request("amazon", keyword, None)>>
                           \o [i \in 1..Len(potential_keywords) |->
                                  Request("trends", potential_keywords[i].keyword, None)],
                           [extracted_keywords |-> extracted.keywords,
                            amazon_suggestions |-> amazon,
                            filtered_keywords |-> filtered_keywords] @@ ranked,
                           Returned("list", potential_keywords))

\* grok-1.py
Analysis_grok1(self, keyword, search, trends) ==
    IF NoSearchResults(search)
    THEN Done(self, <<search_request(self, keyword)>>, EmptyDict,
              Returned("dict", [error |-> keyword]))
    ELSE LET extracted == extract_keywords_stemmed(self.trnlp, search.json)
         IN  IF extracted.raised
             THEN Done(self, <<search_request(self, keyword)>>, EmptyDict,
                       Returned("exception", "KeyError"))
             ELSE LET ranked == Rank(extracted.keywords, TopWords, TopNgrams)
                      after == [self EXCEPT !.trnlp = extracted.trnlp,
                                            !.pytrends = build_payload(self.pytrends, keyword)]
                  IN  Done(after, <<search_request(self, keyword), Request("trends", keyword, None)>>,
                           [extracted_keywords |-> extracted.keywords] @@ ranked,
                           Returned("dict",
                               [keywords |-> potential_keywords_grok1(ranked, keyword),
                                competition |-> calculate_competition(search.json),
                                trend |-> get_trend_data(keyword, trends),
                                suggestions |-> suggest_keywords(extracted.keywords)]))

(***************************************************************************)
(* keyword2.py: the competitor analysis that ends analyze_keywords.        *)
(***************************************************************************)
\* most_common(5) of analyze_competitor
TopCompetitorWords == 5

\* a loop that analyses a domain once, at the first result that links to it
RECURSIVE LinkedDomainsOnce(_)
LinkedDomainsOnce(organic_results) ==
    IF organic_results = <<>> THEN <<>>
    ELSE LET link == Get(Head(organic_results), "link", <<>>)
             domain == IF link = <<>> THEN <<>> ELSE extract_domain_from_link(link)
             rest == LinkedDomainsOnce(Tail(organic_results))
         IN  (IF domain # <<>> THEN <<domain>> ELSE <<>>)
             \o SelectSeq(rest, LAMBDA d : d # domain)

\* the domains analyze_competitor is called with, in the order of the calls
RECURSIVE LinkedDomains(_)
LinkedDomains(organic_results) ==
    IF organic_results = <<>> THEN <<>>
    ELSE LET link == Get(Head(organic_results), "link", <<>>)
             domain == IF link = <<>> THEN <<>> ELSE extract_domain_from_link(link)
         IN  (IF domain # <<>> THEN <<domain>> ELSE <<>>)
             \o LinkedDomains(Tail(organic_results))

site_query(domain, original_keyword) ==
    <<"s", "i", "t", "e", ":">> \o domain \o <<" ">> \o original_keyword

\* analyze_competitor, given the answer to its search: [raised, value, trnlp]
analyze_competitor(trnlp, search) ==
    IF NoSearchResults(search)
    THEN [raised |-> FALSE, value |-> [top_keywords |-> <<>>, intent_ratio |-> 0],
          trnlp |-> trnlp]
    ELSE LET extracted == extract_keywords_stemmed(trnlp, search.json)
             keywords == extracted.keywords
             keyword_counts == most_common(Counter(keywords), TopCompetitorWords)
             intent_count == Cardinality({i \in 1..Len(keywords) :
                                             detect_purchase_intent(keywords[i])})
         IN  [raised |-> extracted.raised,
              trnlp |-> extracted.trnlp,
              value |-> [top_keywords |-> [i \in 1..Len(keyword_counts) |->
                                              keyword_counts[i].item],
                         \* in whole percents
                         intent_ratio |-> IF keywords = <<>> THEN 0
                                          ELSE (intent_count * 100) \div Len(keywords)]]

\* the calls of analyze_competitor of the loop, up to the first that raises:
\* [trnlp, analyses]
RECURSIVE CompetitorAnalyses(_, _)
CompetitorAnalyses(trnlp, searches) ==
    IF searches = <<>> THEN [trnlp |-> trnlp, analyses |-> <<>>]
    ELSE LET first == analyze_competitor(trnlp, Head(searches))
             rest == IF first.raised THEN [trnlp |-> first.trnlp, analyses |-> <<>>]
                     ELSE CompetitorAnalyses(first.trnlp, Tail(searches))
         IN  [trnlp |-> rest.trnlp, analyses |-> <<first>> \o rest.analyses]

\* keyword2.py; competitor_searches[i] answers the search of the i-th call of
\* analyze_competitor
Analysis_keyword2(self, keyword, search, trends, competitor_searches) ==
    IF NoSearchResults(search)
    THEN Done(self, <<search_request(self, keyword)>>, EmptyDict,
              Returned("dict", [error |-> keyword]))
    ELSE LET extracted == extract_keywords_stemmed(self.trnlp, search.json)
         IN  IF extracted.raised
             THEN Done(self, <<search_request(self, keyword)>>, EmptyDict,
                       Returned("exception", "KeyError"))
             ELSE LET ranked == Rank(extracted.keywords, TopWords, TopNgrams)
                      domains == LinkedDomains(Get(search.json, "organic_results", <<>>))
                      competitor == CompetitorAnalyses(extracted.trnlp, competitor_searches)
                      analyses == competitor.analyses
                      after == [self EXCEPT !.trnlp = competitor.trnlp,
                                            !.pytrends = build_payload(self.pytrends, keyword)]
                      Last(d) == CHOOSE i \in 1..Len(domains) :
                                     /\ domains[i] = d
                                     /\ \A j \in (i + 1)..Len(domains) : domains[j] # d
                      reqs == <<search_request(self, keyword),
                                Request("trends", keyword, None)>>
                              \o [i \in 1..Len(analyses) |->
                                     search_request(self, site_query(domains[i], keyword))]
                  IN  IF \E i \in 1..Len(analyses) : analyses[i].raised
                      THEN Done(after, reqs, EmptyDict, Returned("exception", "KeyError"))
                      ELSE Done(after, reqs,
                                [extracted_keywords |-> extracted.keywords] @@ ranked,
                                Returned("dict",
                                    [keywords |-> potential_keywords_keyword2(ranked, keyword),
                                     competition |-> calculate_competition(search.json),
                                     trend |-> get_trend_data(keyword, trends),
                                     suggestions |-> suggest_keywords(extracted.keywords),
                                     \* list(set): the order is not modelled
                                     competitors |-> Range(domains),
                                     competitor_analysis |->
                                         [d \in Range(domains) |-> analyses[Last(d)].value]]))

\* the number of calls of analyze_competitor one response leads to
CompetitorCalls(search) ==
    IF NoSearchResults(search) THEN 0
    ELSE Len(LinkedDomains(Get(search.json, "organic_results", <<>>)))

(***************************************************************************)
(* gelismis.py: four collaborators, each behind its own try/except.        *)
(***************************************************************************)
\* most_common(10) of gelismis.py
TopWordsGelismis == 10

\* a get_google_trends that answers a failure with a dict that is not empty
get_google_trends_stale(keyword, trends) ==
    IF trends = "empty" THEN EmptyDict ELSE [interest |-> Len(keyword)]

\* get_google_trends: interest_over_time().to_dict(), {} when there is no data
\* and when the provider raises
get_google_trends(keyword, trends) ==
    IF trends = "data" THEN [interest |-> Len(keyword)] ELSE EmptyDict

\* the loop of get_duckduckgo_results: result['title'] raises KeyError at the
\* first result without a title, and the words read so far are kept
RECURSIVE TitleWords(_)
TitleWords(results) ==
    IF results = <<>> \/ ~HasKey(Head(results), "title") THEN <<>>
    ELSE findall_words(lower(Head(results).title)) \o TitleWords(Tail(results))

get_duckduckgo_results(duck) == IF duck.failed THEN <<>> ELSE TitleWords(duck.results)

\* get_keywordtool_io_results, get_people_also_ask
scraped_texts(page) == IF page.failed THEN <<>> ELSE page.texts

Analysis_gelismis(self, keyword, trends, duck, keywordtool, paa) ==
    LET all_keywords == get_duckduckgo_results(duck) \o scraped_texts(keywordtool)
                        \o scraped_texts(paa)
        filtered_keywords == FilterStopWords(all_keywords)
    IN  Done([self EXCEPT !.pytrends = build_payload(self.pytrends, keyword)],
             <<Request("trends", keyword, None), Request("duckduckgo", keyword, None),
               Request("keywordtool", keyword, None), Request("google", keyword, None)>>,
             [all_keywords |-> all_keywords, filtered_keywords |-> filtered_keywords],
             Returned("dict",
                 [trends |-> get_google_trends(keyword, trends),
                  most_common_keywords |->
                      most_common(Counter(filtered_keywords), TopWordsGelismis)]))

(***************************************************************************)
(* The actions: the construction of the analyzer, one analyze_keywords     *)
(* call per script, and the report that ends the call.                     *)
(***************************************************************************)
Finish(outcome) ==
    /\ locals' = outcome.locals
    /\ result' = outcome.result
    /\ requests' = outcome.requests
    /\ pc' = IF outcome.result.returns = "exception" THEN "raised" ELSE "returned"
    /\ analyzer' = outcome.self
    /\ UNCHANGED <<fn_call, fn_ret, threads, main>>

analyze_keywords_keword ==
    /\ pc = "idle"
    /\ analyzer.variant = "keword"
    /\ \E keyword \in Keywords, search \in SearchOutcomes :
        /\ call' = [op |-> "analyze_keywords", keyword |-> keyword, search |-> search]
        /\ Finish(Analysis_keword(analyzer, keyword, search))

analyze_keywords_yedek ==
    /\ pc = "idle"
    /\ analyzer.variant = "yedek"
    /\ \E keyword \in Keywords, search \in SearchOutcomes :
        /\ call' = [op |-> "analyze_keywords", keyword |-> keyword, search |-> search]
        /\ Finish(Analysis_yedek(analyzer, keyword, search))

analyze_keywords_12 ==
    /\ pc = "idle"
    /\ analyzer.variant = "12"
    /\ \E keyword \in Keywords, search \in SearchOutcomes,
          amazon \in SuggestionLists, trends \in TrendOutcomes :
        /\ call' = [op |-> "analyze_keywords", keyword |-> keyword, search |-> search,
                    amazon |-> amazon, trends |-> trends]
        /\ Finish(Analysis_12(analyzer, keyword, search, amazon, trends))

analyze_keywords_grok1 ==
    /\ pc = "idle"
    /\ analyzer.variant = "grok1"
    /\ \E keyword \in Keywords, search \in SearchOutcomes, trends \in TrendOutcomes :
        /\ call' = [op |-> "analyze_keywords", keyword |-> keyword, search |-> search,
                    trends |-> trends]
        /\ Finish(Analysis_grok1(analyzer, keyword, search, trends))

analyze_keywords_keyword2 ==
    /\ pc = "idle"
    /\ analyzer.variant = "keyword2"
    /\ \E keyword \in Keywords, search \in SearchOutcomes, trends \in TrendOutcomes :
        \E competitor_searches \in [1..CompetitorCalls(search) -> CompetitorOutcomes] :
            /\ call' = [op |-> "analyze_keywords", keyword |-> keyword, search |-> search,
                        trends |-> trends, competitor_searches |-> competitor_searches]
            /\ Finish(Analysis_keyword2(analyzer, keyword, search, trends,
                                        competitor_searches))

analyze_keywords_gelismis ==
    /\ pc = "idle"
    /\ analyzer.variant = "gelismis"
    /\ \E keyword \in Keywords, trends \in TrendOutcomes, duck \in DuckOutcomes,
          keywordtool \in ScraperOutcomes, paa \in ScraperOutcomes :
        /\ call' = [op |-> "analyze_keywords", keyword |-> keyword, trends |-> trends,
                    duck |-> duck, keywordtool |-> keywordtool, paa |-> paa]
        /\ Finish(Analysis_gelismis(analyzer, keyword, trends, duck, keywordtool, paa))

\* print_report, or render_template in index: the call is over
Report ==
    /\ pc = "returned"
    /\ pc' = "idle"
    /\ call' = NoCall
    /\ locals' = EmptyDict
    /\ result' = NoResult
    /\ requests' = <<>>
    /\ UNCHANGED <<analyzer, fn_call, fn_ret, threads, main>>

\* an exception raised under index (yedek.py, grok-1.py, keyword2.py) ends the
\* request, not the server; in the batch scripts it ends the process
ServerError ==
    /\ pc = "raised"
    /\ analyzer.variant \in {"yedek", "grok1", "keyword2"}
    /\ pc' = "idle"
    /\ call' = NoCall
    /\ locals' = EmptyDict
    /\ result' = NoResult
    /\ requests' = <<>>
    /\ UNCHANGED <<analyzer, fn_call, fn_ret, threads, main>>

Init ==
    /\ analyzer = NoAnalyzer
    /\ pc = "start"
    /\ call = NoCall
    /\ locals = EmptyDict
    /\ result = NoResult
    /\ requests = <<>>
    /\ fn_call = [f |-> "none"]
    /\ fn_ret = NotApplied
    /\ threads = <<>>
    /\ main = <<>>

Next ==
    \/ Construct
    \/ analyze_keywords_keword
    \/ analyze_keywords_yedek
    \/ analyze_keywords_12
    \/ analyze_keywords_grok1
    \/ analyze_keywords_keyword2
    \/ analyze_keywords_gelismis
    \/ Report
    \/ ServerError

Spec == Init /\ [][Next]_vars

(***************************************************************************)
(* The pipeline's pure functions, applied to inputs drawn from bounded     *)
(* sets.                                                                   *)
(***************************************************************************)
RankItems == {w_ev, w_ver, w_ucuz}

SevenDistinct == <<w_ev, w_ver, w_ucuz, w_evi, w_bahis, w_iddaa, w_kumar>>

FilterWords == {w_ve, w_de, w_ver, w_ev, <<"v">>, <<"_">>}

IntentChars == {"u", "U", " "}

\* the characters of the texts handed to extract_keywords
RawChars == {"V", "e", ",", "_", " "}

IntentPhrases == SeqsUpTo(IntentChars, 2) \ {<<>>}

\* what the stemmer may do with a word: give a stem, give the empty string, raise
StemmerOutcomes ==
    {[raised |-> FALSE, stem |-> stem] : stem \in {<<>>, w_ev, w_kim}}
    \cup {[raised |-> TRUE, stem |-> <<>>]}

FnInputs ==
    {[f |-> "most_common", items |-> s, n |-> k] :
        s \in SeqsUpTo(RankItems, MaxLen), k \in 1..MaxK}
    \cup {[f |-> "most_common", items |-> SevenDistinct, n |-> 5]}
    \cup {[f |-> "ngrams", sequence |-> s, n |-> k] :
        s \in SeqsUpTo(RankItems, MaxLen), k \in 1..3}
    \cup {[f |-> "filter", words |-> s] : s \in SeqsUpTo(FilterWords, MaxFilterLen)}
    \cup {[f |-> "extract_keywords", words |-> s, min_word_length |-> m] :
        s \in SeqsUpTo(FilterWords, MaxFilterLen), m \in {1, 3}}
    \cup {[f |-> "detect_purchase_intent", keyword_phrase |-> t, intents |-> l] :
        t \in SeqsUpTo(IntentChars, MaxTextLen), l \in SeqsUpTo(IntentPhrases, 2)}
    \cup {[f |-> "lemmatize_word", word |-> w, stemmed |-> o] :
        w \in {w_evi, w_kime, w_ucuz}, o \in StemmerOutcomes}
    \cup {[f |-> "index_filter", tokens |-> s, keyword |-> k, filter_type |-> t] :
        s \in SeqsUpTo(RankItems, MaxStreamLen), k \in Keywords, t \in FilterTypes}
    \cup {[f |-> "extract_keywords_of_text", text |-> t, tokenize_raises |-> r,
           min_word_length |-> m] :
        t \in SeqsUpTo(RawChars, MaxRawLen), r \in BOOLEAN, m \in {1, 3}}

FnInit ==
    /\ fn_call \in FnInputs
    /\ fn_ret = NotApplied
    /\ analyzer = NoAnalyzer
    /\ pc = "start"
    /\ call = NoCall
    /\ locals = EmptyDict
    /\ result = NoResult
    /\ requests = <<>>
    /\ threads = <<>>
    /\ main = <<>>

ApplyMostCommon ==
    /\ fn_call.f = "most_common"
    /\ ~fn_ret.done
    /\ fn_ret' = [done |-> TRUE, value |-> most_common(Counter(fn_call.items), fn_call.n)]
    /\ UNCHANGED <<fn_call, analyzer, pc, call, locals, result, requests, threads, main>>

ApplyNgrams ==
    /\ fn_call.f = "ngrams"
    /\ ~fn_ret.done
    /\ fn_ret' = [done |-> TRUE, value |-> ngrams(fn_call.sequence, fn_call.n)]
    /\ UNCHANGED <<fn_call, analyzer, pc, call, locals, result, requests, threads, main>>

ApplyFilter ==
    /\ fn_call.f = "filter"
    /\ ~fn_ret.done
    /\ fn_ret' = [done |-> TRUE, value |-> FilterStopWords(fn_call.words)]
    /\ UNCHANGED <<fn_call, analyzer, pc, call, locals, result, requests, threads, main>>

ApplyExtractKeywords ==
    /\ fn_call.f = "extract_keywords"
    /\ ~fn_ret.done
    /\ fn_ret' = [done |-> TRUE,
                  value |-> FilterKeywords(fn_call.words, fn_call.min_word_length)]
    /\ UNCHANGED <<fn_call, analyzer, pc, call, locals, result, requests, threads, main>>

ApplyDetectIntent ==
    /\ fn_call.f = "detect_purchase_intent"
    /\ ~fn_ret.done
    /\ fn_ret' = [done |-> TRUE,
                  value |-> detect_intent(fn_call.keyword_phrase, fn_call.intents)]
    /\ UNCHANGED <<fn_call, analyzer, pc, call, locals, result, requests, threads, main>>

ApplyLemmatizeWord ==
    /\ fn_call.f = "lemmatize_word"
    /\ ~fn_ret.done
    /\ fn_ret' = [done |-> TRUE, value |-> stem_or_word(fn_call.word, fn_call.stemmed)]
    /\ UNCHANGED <<fn_call, analyzer, pc, call, locals, result, requests, threads, main>>

ApplyExtractKeywordsOfText ==
    /\ fn_call.f = "extract_keywords_of_text"
    /\ ~fn_ret.done
    /\ fn_ret' = [done |-> TRUE,
                  value |-> extract_keywords(fn_call.text, fn_call.tokenize_raises,
                                             fn_call.min_word_length)]
    /\ UNCHANGED <<fn_call, analyzer, pc, call, locals, result, requests, threads, main>>

\* the filter of index in yedek.py and in grok-1.py, on the candidates the two
\* scripts make of one token stream and one keyword
ApplyIndexFilter ==
    /\ fn_call.f = "index_filter"
    /\ ~fn_ret.done
    /\ LET ranked == Rank(fn_call.tokens, TopWords, TopNgrams)
       IN  fn_ret' = [done |-> TRUE,
                      value |-> [yedek |-> index_filter_yedek(
                                              potential_keywords_yedek(ranked, fn_call.keyword),
                                              fn_call.filter_type),
                                 typed |-> index_filter_typed(
                                              potential_keywords_grok1(ranked, fn_call.keyword),
                                              fn_call.filter_type)]]
    /\ UNCHANGED <<fn_call, analyzer, pc, call, locals, result, requests, threads, main>>

FnNext ==
    \/ ApplyMostCommon
    \/ ApplyNgrams
    \/ ApplyFilter
    \/ ApplyExtractKeywords
    \/ ApplyDetectIntent
    \/ ApplyLemmatizeWord
    \/ ApplyExtractKeywordsOfText
    \/ ApplyIndexFilter

SpecFn == FnInit /\ [][FnNext]_vars

(***************************************************************************)
(* The web front end of keyword2.py: index calls analyze_keywords on the   *)
(* one module-level analyzer, and the server handles requests in threads,  *)
(* so the statements of two calls interleave.  Each request is followed    *)
(* through the statements that touch the objects the analyzer holds:       *)
(* self.trnlp (setword, then get_stem) and self.pytrends (build_payload,   *)
(* then interest_over_time).                                               *)
(***************************************************************************)
WebRequests == {1, 2}

\* the tokens a request extracts from its search results
WebWords == {w_evi, w_kime}

IdleThread ==
    [at |-> "idle", keyword |-> <<>>, word |-> <<>>, lemma |-> <<>>,
     trends |-> "none", trend |-> EmptyDict]

\* index, POST: keyword = request.form["keyword"]; analyze_keywords(keyword)
\* searches and extracts a token
index_post ==
    \E t \in WebRequests, keyword \in Keywords, word \in WebWords :
        /\ threads[t].at = "idle"
        /\ threads' = [threads EXCEPT ![t] =
               [IdleThread EXCEPT !.at = "setword", !.keyword = keyword, !.word = word]]
        /\ UNCHANGED <<analyzer, pc, call, locals, result, requests, fn_call, fn_ret, main>>

\* lemmatize_word, first statement: self.trnlp.setword(word)
trnlp_setword ==
    \E t \in WebRequests :
        /\ threads[t].at = "setword"
        /\ analyzer' = [analyzer EXCEPT !.trnlp = setword(@, threads[t].word)]
        /\ threads' = [threads EXCEPT ![t].at = "get_stem"]
        /\ UNCHANGED <<pc, call, locals, result, requests, fn_call, fn_ret, main>>

\* lemmatize_word, second statement: return self.trnlp.get_stem or word
trnlp_get_stem ==
    \E t \in WebRequests :
        /\ threads[t].at = "get_stem"
        /\ threads' = [threads EXCEPT
               ![t].at = "build_payload",
               ![t].lemma = stem_or_word(threads[t].word,
                                [raised |-> FALSE, stem |-> get_stem(analyzer.trnlp)]).value]
        /\ UNCHANGED <<analyzer, pc, call, locals, result, requests, fn_call, fn_ret, main>>

\* get_trend_data, first statement: self.pytrends.build_payload([keyword], ...)
pytrends_build_payload ==
    \E t \in WebRequests :
        /\ threads[t].at = "build_payload"
        /\ analyzer' = [analyzer EXCEPT !.pytrends = build_payload(@, threads[t].keyword)]
        /\ threads' = [threads EXCEPT ![t].at = "interest_over_time"]
        /\ UNCHANGED <<pc, call, locals, result, requests, fn_call, fn_ret, main>>

\* get_trend_data, the rest: self.pytrends.interest_over_time() and the report
pytrends_interest_over_time ==
    \E t \in WebRequests, trends \in TrendOutcomes :
        /\ threads[t].at = "interest_over_time"
        /\ threads' = [threads EXCEPT
               ![t].at = "render_template",
               ![t].trends = trends,
               ![t].trend = interest_report(analyzer.pytrends, threads[t].keyword, trends)]
        /\ UNCHANGED <<analyzer, pc, call, locals, result, requests, fn_call, fn_ret, main>>

\* index: return render_template(...); the request is over
render_template ==
    \E t \in WebRequests :
        /\ threads[t].at = "render_template"
        /\ threads' = [threads EXCEPT ![t] = IdleThread]
        /\ UNCHANGED <<analyzer, pc, call, locals, result, requests, fn_call, fn_ret, main>>

\* analyzer = KeywordAnalyzer(SERP_API_KEY), at import
WebInit ==
    /\ analyzer = new_analyzer("keyword2", PyStr(<<"K">>))
    /\ pc = "idle"
    /\ call = NoCall
    /\ locals = EmptyDict
    /\ result = NoResult
    /\ requests = <<>>
    /\ fn_call = [f |-> "none"]
    /\ fn_ret = NotApplied
    /\ threads = [t \in WebRequests |-> IdleThread]
    /\ main = <<>>

WebNext ==
    \/ index_post
    \/ trnlp_setword
    \/ trnlp_get_stem
    \/ pytrends_build_payload
    \/ pytrends_interest_over_time
    \/ render_template

SpecWeb == WebInit /\ [][WebNext]_vars

(***************************************************************************)
(* The __main__ block of the batch scripts 12.py and keword.py: the        *)
(* analyzer is made, each keyword of the list is analysed and reported in  *)
(* turn, and a last line is printed.  An exception that leaves             *)
(* analyze_keywords leaves the loop and ends the process.                  *)
(***************************************************************************)
BatchScripts == {"12", "keword"}

\* keywords = [...]: three keywords
keywords == <<w_araba, w_mavibet, w_ev>>

Event(ev, keyword) == [ev |-> ev, keyword |-> keyword]

\* analysis_results = analyzer.analyze_keywords(keyword)
main_analyze(outcome, search) ==
    /\ analyzer' = outcome.self
    /\ result' = outcome.result
    /\ requests' = outcome.requests
    /\ main' = [main EXCEPT
           !.at = IF outcome.result.returns = "exception" THEN "crashed" ELSE "report",
           !.trace = Append(@, Event("search", keywords[main.i])
                                @@ [failed |-> search.failed])]
    /\ UNCHANGED <<pc, call, locals, fn_call, fn_ret, threads>>

main_analyze_keywords_12 ==
    /\ DOMAIN main # {}
    /\ main.at = "loop"
    /\ analyzer.variant = "12"
    /\ \E search \in SearchOutcomes, amazon \in SuggestionLists, trends \in TrendOutcomes :
        main_analyze(Analysis_12(analyzer, keywords[main.i], search, amazon, trends), search)

main_analyze_keywords_keword ==
    /\ DOMAIN main # {}
    /\ main.at = "loop"
    /\ analyzer.variant = "keword"
    /\ \E search \in SearchOutcomes :
        main_analyze(Analysis_keword(analyzer, keywords[main.i], search), search)

\* analyzer.print_report(keyword, analysis_results): `if analysis_results:`
\* chooses between the candidates and "No results found for this keyword.";
\* then print(f"Analysis completed for keyword: {keyword}"), and the loop goes on
main_print_report ==
    /\ DOMAIN main # {}
    /\ main.at = "report"
    /\ main' = [main EXCEPT
           !.i = @ + 1,
           !.at = IF main.i = Len(keywords) THEN "end" ELSE "loop",
           !.trace = @ \o << Event("report", keywords[main.i])
                                @@ [body |-> IF result.value = <<>> THEN "no results"
                                             ELSE "candidates"],
                             Event("completed", keywords[main.i]) >>]
    /\ result' = NoResult
    /\ requests' = <<>>
    /\ UNCHANGED <<analyzer, pc, call, locals, fn_call, fn_ret, threads>>

\* print("All keyword analysis completed.")
main_all_completed ==
    /\ DOMAIN main # {}
    /\ main.at = "end"
    /\ main' = [main EXCEPT !.at = "done",
                            !.trace = Append(@, [ev |-> "all completed"])]
    /\ UNCHANGED <<analyzer, pc, call, locals, result, requests, fn_call, fn_ret, threads>>

\* analyzer = KeywordAnalyzer(SERP_API_KEY, ...), with the key of the script
BatchInit ==
    /\ \E variant \in BatchScripts : analyzer = new_analyzer(variant, PyStr(<<"K">>))
    /\ pc = "idle"
    /\ call = NoCall
    /\ locals = EmptyDict
    /\ result = NoResult
    /\ requests = <<>>
    /\ fn_call = [f |-> "none"]
    /\ fn_ret = NotApplied
    /\ threads = <<>>
    /\ main = [i |-> 1, at |-> "loop", trace |-> <<>>]

BatchNext ==
    \/ main_analyze_keywords_12
    \/ main_analyze_keywords_keword
    \/ main_print_report
    \/ main_all_completed

SpecBatch == BatchInit /\ [][BatchNext]_vars

(***************************************************************************)
(* Vocabulary of the properties.                                           *)
(***************************************************************************)
\* number of occurrences of x in the sequence s
Occ(s, x) == Cardinality({i \in 1..Len(s) : s[i] = x})

\* position of the first occurrence of x in s (x occurs in s)
FirstIndex(s, x) == CHOOSE i \in 1..Len(s) : s[i] = x /\ \A j \in 1..(i - 1) : s[j] # x

\* sub is obtained from s by deleting items (the relative order is kept)
RECURSIVE IsSubsequence(_, _)
IsSubsequence(sub, s) ==
    IF sub = <<>> THEN TRUE
    ELSE IF s = <<>> THEN FALSE
    ELSE IF Head(sub) = Head(s) THEN IsSubsequence(Tail(sub), Tail(s))
    ELSE IsSubsequence(sub, Tail(s))

Applied(f) == fn_call.f = f /\ fn_ret.done

(***************************************************************************)
(* C1: for every item sequence and every cutoff K, most_common(K) returns  *)
(* exactly min(K, number of distinct items) pairs (item, count) of         *)
(* distinct items, each count being the number of occurrences of the item  *)
(* in the input (so at least 1), the counts are in non-increasing order,   *)
(* and no item left out has a strictly larger count than an item returned. *)
(***************************************************************************)
C1_RankerContract ==
    Applied("most_common") =>
        LET items == fn_call.items
            K == fn_call.n
            r == fn_ret.value
            returned == {r[i].item : i \in 1..Len(r)}
        IN  /\ Len(r) = Min(K, Cardinality(Range(items)))
            /\ \A i \in 1..Len(r) :
                   /\ r[i].item \in Range(items)
                   /\ r[i].count = Occ(items, r[i].item)
                   /\ r[i].count >= 1
            /\ \A i, j \in 1..Len(r) : i < j => r[i].item # r[j].item
            /\ \A i \in 1..(Len(r) - 1) : r[i].count >= r[i + 1].count
            /\ \A x \in Range(items) \ returned :
                   \A i \in 1..Len(r) : Occ(items, x) <= r[i].count

\* the ranker has cut off one of three items, and the most frequent item, which
\* it returns first, is not the first item of the input
C1_Witness ==
    /\ Applied("most_common")
    /\ Len(fn_ret.value) = 2
    /\ Cardinality(Range(fn_call.items)) = 3
    /\ fn_ret.value[1].count > fn_ret.value[2].count
    /\ fn_ret.value[1].item # fn_call.items[1]

(***************************************************************************)
(* C2: ties are broken by first appearance: of two items with equal counts *)
(* the one whose first occurrence in the input is earlier is ranked first  *)
(* (and is the one kept when the cutoff falls between them); [a,b,a,b,c]   *)
(* with K=2 gives [(a,2),(b,2)], and 7 distinct single-occurrence tokens   *)
(* with K=5 give the first 5 tokens in input order.                        *)
(***************************************************************************)
C2_TieBreakFirstAppearance ==
    Applied("most_common") =>
        LET items == fn_call.items
            K == fn_call.n
            r == fn_ret.value
            returned == {r[i].item : i \in 1..Len(r)}
        IN  /\ \A i, j \in 1..Len(r) :
                   (i < j /\ r[i].count = r[j].count)
                       => FirstIndex(items, r[i].item) < FirstIndex(items, r[j].item)
            /\ \A x \in Range(items) \ returned :
                   \A i \in 1..Len(r) :
                       Occ(items, x) = r[i].count
                           => FirstIndex(items, r[i].item) < FirstIndex(items, x)
            /\ (items = <<w_ev, w_ver, w_ev, w_ver, w_ucuz>> /\ K = 2)
                   => r = << [item |-> w_ev, count |-> 2], [item |-> w_ver, count |-> 2] >>
            /\ (items = SevenDistinct /\ K = 5)
                   => r = [i \in 1..5 |-> [item |-> SevenDistinct[i], count |-> 1]]

\* the ranker was applied to [a,b,a,b,c] with K=2
C2_Witness ==
    /\ Applied("most_common")
    /\ fn_call.items = <<w_ev, w_ver, w_ev, w_ver, w_ucuz>>
    /\ fn_call.n = 2

(***************************************************************************)
(* C3: for a token sequence of length L and N in {1,2,3}, the n-gram       *)
(* builder yields exactly max(0, L-N+1) n-grams, the i-th being the N      *)
(* consecutive tokens starting at position i; for L < N it yields the      *)
(* empty sequence.                                                         *)
(***************************************************************************)
C3_NgramContract ==
    Applied("ngrams") =>
        LET s == fn_call.sequence
            N == fn_call.n
            g == fn_ret.value
        IN  /\ Len(g) = Max(0, Len(s) - N + 1)
            /\ \A i \in 1..Len(g) : g[i] = SubSeq(s, i, i + N - 1)
            /\ Len(s) < N => g = <<>>

\* trigrams of a sequence of five tokens were built
C3_Witness ==
    /\ Applied("ngrams")
    /\ fn_call.n = 3
    /\ Len(fn_call.sequence) = 5
    /\ Len(fn_ret.value) = 3

(***************************************************************************)
(* C4: the stop-word filter removes a token iff it is an exact member of   *)
(* the stop-word set (a word that merely starts with a stop word stays),   *)
(* and the surviving tokens keep their relative order, duplicates kept.    *)
(* In kalite.py, where the same comprehension also applies the minimum     *)
(* length and the alphanumeric test, this holds of the tokens that pass    *)
(* those two tests.                                                        *)
(***************************************************************************)
C4_StopWordFilterExact ==
    /\ Applied("filter") =>
           /\ \A w \in FilterWords :
                  Occ(fn_ret.value, w) = IF w \in stop_words THEN 0 ELSE Occ(fn_call.words, w)
           /\ IsSubsequence(fn_ret.value, fn_call.words)
    /\ Applied("extract_keywords") =>
           /\ \A w \in FilterWords :
                  (Len(w) >= fn_call.min_word_length /\ \E i \in 1..Len(w) : w[i] # "_")
                      => Occ(fn_ret.value, w)
                             = IF w \in stop_words THEN 0 ELSE Occ(fn_call.words, w)
           /\ IsSubsequence(fn_ret.value, fn_call.words)

\* the filter met a stop word, and twice a word that starts with a stop word
C4_Witness ==
    /\ Applied("filter")
    /\ fn_call.words = <<w_ver, w_ve, w_ver>>
    /\ fn_ret.value = <<w_ver, w_ver>>

\* analyze_keywords has returned (not raised) after a search that gave results
Analyzed ==
    /\ pc = "returned"
    /\ call.op = "analyze_keywords"
    /\ analyzer.variant # "gelismis"
    /\ ~NoSearchResults(call.search)

\* the candidate list of the result: the list itself (12.py, keword.py,
\* yedek.py) or the "keywords" of the dict (grok-1.py, keyword2.py)
Candidates == IF result.returns = "list" THEN result.value ELSE result.value.keywords

(***************************************************************************)
(* C5: for a keyword of the synonym table and a successful search, the     *)
(* result of analyze_keywords (yedek.py, grok-1.py, keyword2.py) ends with *)
(* exactly the keyword's synonym entries, each with the sentinel as its    *)
(* count, in the order of the synonym list and after every extracted       *)
(* candidate; for a keyword that is not in the table no entry carries the  *)
(* sentinel.                                                               *)
(***************************************************************************)
C5_SynonymsAppendedInOrder ==
    (Analyzed /\ analyzer.variant \in {"yedek", "grok1", "keyword2"}) =>
        LET c == Candidates
            keyword == call.keyword
        IN  IF keyword \in DOMAIN synonym_dict
            THEN LET synonyms == synonym_dict[keyword]
                     n == Len(c) - Len(synonyms)
                 IN  /\ n >= 0
                     /\ \A i \in 1..Len(synonyms) :
                            /\ c[n + i].keyword = synonyms[i]
                            /\ c[n + i].count = Sentinel
                     /\ \A i \in 1..n : IsInt(c[i].count)
            ELSE \A i \in 1..Len(c) : IsInt(c[i].count)

\* yedek.py returned the three synonyms of "mavibet" after extracted candidates
C5_Witness ==
    /\ Analyzed
    /\ analyzer.variant = "yedek"
    /\ call.keyword = w_mavibet
    /\ Len(result.value) > 3
    /\ IsInt(result.value[1].count)
    /\ result.value[Len(result.value)].keyword = w_kumar

(***************************************************************************)
(* C6: augmentation never removes or reorders the candidates of the        *)
(* ranker: the list analyze_keywords returns starts with the top words,    *)
(* then the top bigrams, then the top trigrams, with the text, the count   *)
(* and the order the ranker gave them; what is added is an annotation on   *)
(* the entries (keyword2.py: type and purchase_intent; 12.py: the trend    *)
(* volume) and the synonym entries after them.                             *)
(***************************************************************************)
C6_AugmentationKeepsCandidates ==
    Analyzed =>
        LET c == Candidates
            words == locals.most_common_keywords
            bigrams == locals.most_common_bigrams
            trigrams == locals.most_common_trigrams
            n == Len(words) + Len(bigrams) + Len(trigrams)
        IN  /\ Len(c) >= n
            /\ \A i \in 1..Len(words) :
                   /\ c[i].keyword = words[i].item
                   /\ c[i].count = PyInt(words[i].count)
            /\ \A i \in 1..Len(bigrams) :
                   /\ c[Len(words) + i].keyword = join(bigrams[i].item)
                   /\ c[Len(words) + i].count = PyInt(bigrams[i].count)
            /\ \A i \in 1..Len(trigrams) :
                   /\ c[Len(words) + Len(bigrams) + i].keyword = join(trigrams[i].item)
                   /\ c[Len(words) + Len(bigrams) + i].count = PyInt(trigrams[i].count)
            /\ \A i \in (n + 1)..Len(c) : c[i].count = Sentinel
            /\ \A i \in 1..Len(c) :
                   {"keyword", "count"} \subseteq DOMAIN c[i]
                   /\ DOMAIN c[i] \subseteq
                          {"keyword", "count", "type", "purchase_intent", "trend_volume"}

\* keyword2.py returned an entry with purchase intent after one without, and
\* synonym entries at the end
C6_Witness ==
    /\ Analyzed
    /\ analyzer.variant = "keyword2"
    /\ \E i, j \in 1..Len(result.value.keywords) :
           /\ i < j
           /\ ~result.value.keywords[i].purchase_intent
           /\ result.value.keywords[j].purchase_intent
           /\ result.value.keywords[j].type = "single"
    /\ result.value.keywords[Len(result.value.keywords)].type = "synonym"

NoText(search_results) ==
    \A key \in {"organic_results", "related_questions", "related_searches"} :
        Get(search_results, key, <<>>) = <<>>

C8_EmptyInputEmptyList ==
    (/\ pc \in {"returned", "raised"}
     /\ call.op = "analyze_keywords"
     /\ analyzer.variant = "yedek"
     /\ ~call.search.failed
     /\ NoText(call.search.json))
        => (result.returns = "list" /\ result.value = <<>>)

(***************************************************************************)
(* C9: in every script whose KeywordAnalyzer takes an API key (all but      *)
(* gelismis.py), constructing it with a missing or                         *)
(* empty API key (None or "") is rejected at construction: no analyzer     *)
(* object with an empty credential exists, and no search request is sent   *)
(* with one.                                                               *)
(***************************************************************************)
C9_EmptyKeyRejected ==
    /\ (call.op = "__init__" /\ call.variant # "gelismis" /\ ~Truthy(call.serp_api_key))
           => pc = "rejected"
    /\ analyzer.variant \notin {"none", "gelismis"} => Truthy(analyzer.serp_api_key)
    /\ \A i \in 1..Len(requests) :
           requests[i].to = "serpapi" => Truthy(requests[i].api_key)

(***************************************************************************)
(* C10: when the search-provider call fails (search_google returns None),  *)
(* analyze_keywords of 12.py goes on with the data of the remaining        *)
(* collaborators: it asks for the autocomplete suggestions and returns the *)
(* candidates ranked from them.                                            *)
(***************************************************************************)
C10_SearchFailureProceeds ==
    (/\ pc \in {"returned", "raised"}
     /\ call.op = "analyze_keywords"
     /\ analyzer.variant = "12"
     /\ call.search.failed)
        => /\ \E i \in 1..Len(requests) : requests[i].to = "amazon"
           /\ result.returns = "list"
           /\ result.value =
                  potential_keywords_12(
                      Rank(FilterStopWords(call.amazon), TopWords12, TopNgrams12),
                      call.trends)

(***************************************************************************)
(* C11: the aggregation tolerates any subset of collaborators being        *)
(* absent: whatever combination of the trend, search, autocomplete and     *)
(* related-question collaborators of gelismis.py fails, analyze_keywords   *)
(* raises no exception and returns what it returns when each failed        *)
(* collaborator answers its empty value instead ({} for trends, [] for     *)
(* keyword lists); the same holds of the trend provider of 12.py, whose    *)
(* empty value is "no data".  The scripts call the collaborators in one    *)
(* fixed order, and the result is a function of their answers alone.       *)
(***************************************************************************)
\* the answer of a collaborator, or its empty answer when it failed
TrendsOrEmpty(trends) == IF trends = "error" THEN "empty" ELSE trends
DuckOrEmpty(duck) == IF duck.failed THEN [failed |-> FALSE, results |-> <<>>] ELSE duck
PageOrEmpty(page) == IF page.failed THEN [failed |-> FALSE, texts |-> <<>>] ELSE page

C12_AbsentFieldsTolerated ==
    (/\ pc \in {"returned", "raised"}
     /\ call.op = "analyze_keywords"
     /\ analyzer.variant \in {"12", "keword", "yedek", "grok1", "keyword2"}
     /\ ~NoSearchResults(call.search))
        => /\ result.returns # "exception"
           /\ locals.extracted_keywords =
                  IF analyzer.variant \in {"12", "keword", "yedek"}
                  THEN RegexTokens(ResponseTexts(call.search.json))
                  ELSE LemmatizeAll(None,
                           PreprocessedTokens(ResponseTexts(call.search.json))).keywords

(***************************************************************************)
(* C13: the analysis is a stateless pass: whatever analyses ran before on  *)
(* the analyzer, a call of analyze_keywords returns what a newly           *)
(* constructed analyzer returns for the same keyword and the same          *)
(* collaborator answers, so two calls with identical answers return        *)
(* identical candidate lists; nothing is cached across calls.              *)
(***************************************************************************)
\* the analyzer as __init__ left it
Fresh(self) == new_analyzer(self.variant, self.serp_api_key)

\* what a newly constructed analyzer returns for the call of the state
FreshResult ==
    LET self == Fresh(analyzer)
    IN  CASE analyzer.variant = "keword" ->
                 Analysis_keword(self, call.keyword, call.search).result
          [] analyzer.variant = "yedek" ->
                 Analysis_yedek(self, call.keyword, call.search).result
          [] analyzer.variant = "12" ->
                 Analysis_12(self, call.keyword, call.search, call.amazon, call.trends).result
          [] analyzer.variant = "grok1" ->
                 Analysis_grok1(self, call.keyword, call.search, call.trends).result
          [] analyzer.variant = "keyword2" ->
                 Analysis_keyword2(self, call.keyword, call.search, call.trends,
                                   call.competitor_searches).result
          [] analyzer.variant = "gelismis" ->
                 Analysis_gelismis(self, call.keyword, call.trends, call.duck,
                                   call.keywordtool, call.paa).result

C13_StatelessPass ==
    (pc \in {"returned", "raised"} /\ call.op = "analyze_keywords") => result = FreshResult

\* keyword2.py returned the synonyms of "mavibet" from a response without text,
\* while its stemmer still holds a word of an earlier analysis
C13_Witness ==
    /\ pc = "returned"
    /\ analyzer.variant = "keyword2"
    /\ ~NoSearchResults(call.search)
    /\ call.competitor_searches = <<>>
    /\ locals.extracted_keywords = <<>>
    /\ analyzer.trnlp # None
    /\ Len(result.value.keywords) = 3

(***************************************************************************)
(* C14: the stop-word set and the synonym table are read-only after        *)
(* construction: no sequence of analyze_keywords calls (successful,        *)
(* failing or empty) changes stop_words or synonym_dict; they always equal *)
(* the values loaded in __init__.                                          *)
(***************************************************************************)
C14_TablesReadOnly ==
    analyzer.variant # "none" =>
        /\ analyzer.stop_words = stop_words
        /\ analyzer.synonym_dict = Fresh(analyzer).synonym_dict

\* yedek.py returned candidates for a keyword that is not in the synonym table
C14_Witness ==
    /\ pc = "returned"
    /\ analyzer.variant = "yedek"
    /\ call.keyword \notin DOMAIN synonym_dict
    /\ result.returns = "list"
    /\ Len(result.value) > 0
    /\ analyzer.synonym_dict = synonym_dict

(***************************************************************************)
(* C15: every candidate analyze_keywords returns has a text that is not    *)
(* empty and has no leading or trailing whitespace, for every search       *)
(* response and every list of suggestion strings the autocomplete scraper  *)
(* returns (suggestions that are empty after stripping included).          *)
(***************************************************************************)
CleanText(text) ==
    /\ text # <<>>
    /\ text[1] \notin Whitespace
    /\ text[Len(text)] \notin Whitespace

C15_CandidateTextsClean ==
    (pc = "returned" /\ call.op = "analyze_keywords") =>
        /\ (analyzer.variant = "12" /\ result.returns = "list") =>
               \A i \in 1..Len(result.value) : CleanText(result.value[i].keyword)
        /\ analyzer.variant = "gelismis" =>
               \A i \in 1..Len(result.value.most_common_keywords) :
                   CleanText(result.value.most_common_keywords[i].item)

(***************************************************************************)
(* C16: no token that reaches the n-gram builder and the frequency ranker  *)
(* is a member of the stop-word set, in every script, those that replace   *)
(* each token by its stem included (the stem of a word that is no stop     *)
(* word may itself be a stop word).                                        *)
(***************************************************************************)
\* the tokens analyze_keywords counts: filtered_keywords where the script
\* filters them itself, the stems extract_keywords_from_results returns in
\* grok-1.py and keyword2.py
RankedTokens ==
    IF analyzer.variant \in {"grok1", "keyword2"} THEN locals.extracted_keywords
    ELSE locals.filtered_keywords

C16_NoStopWordRanked ==
    (pc = "returned" /\ call.op = "analyze_keywords" /\ DOMAIN locals # {}) =>
        \A i \in 1..Len(RankedTokens) : RankedTokens[i] \notin analyzer.stop_words

(***************************************************************************)
(* C17: stem-or-original: for every token, lemmatize_word returns the stem *)
(* when the stemmer yields a non-empty stem, and the original token both   *)
(* when the stemmer returns an empty result and when the stemmer fails; a  *)
(* failure of the stemmer is not raised to extract_keywords_from_results,  *)
(* and the token is not dropped.                                           *)
(***************************************************************************)
C17_StemOrOriginal ==
    Applied("lemmatize_word") =>
        /\ ~fn_ret.value.raised
        /\ fn_ret.value.value =
               IF ~fn_call.stemmed.raised /\ fn_call.stemmed.stem # <<>>
               THEN fn_call.stemmed.stem
               ELSE fn_call.word

(***************************************************************************)
(* C18: every blocking call to a collaborator (the search API, the         *)
(* autocomplete and suggestion scraping) is bounded by a timeout, so that  *)
(* a collaborator that never answers cannot keep analyze_keywords from     *)
(* returning.  The trend and DuckDuckGo lookups go through client          *)
(* libraries that set their own limits and are not judged here.            *)
(***************************************************************************)
SentByScript(request) == request.to \notin {"trends", "duckduckgo"}

C18_CallsBounded ==
    \A i \in 1..Len(requests) :
        SentByScript(requests[i]) => requests[i].timeout # None

(***************************************************************************)
(* C19: no state crosses from one request of the web front end to          *)
(* another: when two POST requests are handled on the module-level         *)
(* analyzer, lemmatize_word(w) returns the stem of w (or w), never the     *)
(* stem of the other request's word, and get_trend_data(k) reports on the  *)
(* payload built for k, never on the payload of the other request.         *)
(***************************************************************************)
Lemmatized(t) == threads[t].at \in {"build_payload", "interest_over_time", "render_template"}

C19_NoStateCrossesRequests ==
    \A t \in DOMAIN threads :
        /\ Lemmatized(t) =>
               threads[t].lemma = lemmatize_word(None, threads[t].word).value
        /\ threads[t].at = "render_template" =>
               threads[t].trend = get_trend_data(threads[t].keyword, threads[t].trends)

(***************************************************************************)
(* C20: every script returns at most 5 single-word candidates, and at most *)
(* 3 (12.py) or 5 (the other scripts) two-word and three-word candidates.  *)
(***************************************************************************)
NgramCap == IF analyzer.variant = "12" THEN 3 ELSE 5

C20_CandidateCounts ==
    (pc = "returned" /\ call.op = "analyze_keywords"
        /\ "most_common_bigrams" \in DOMAIN locals) =>
        /\ Len(locals.most_common_keywords) <= 5
        /\ Len(locals.most_common_bigrams) <= NgramCap
        /\ Len(locals.most_common_trigrams) <= NgramCap

(***************************************************************************)
(* C21: in kalite.py, every token extract_keywords returns has at least    *)
(* min_word_length characters, holds an alphanumeric character and is no   *)
(* stop word; the tokens come in the order they have in the text; and this *)
(* holds both when the tokenizer answers and when it raises and the text   *)
(* is split at whitespace instead.                                         *)
(***************************************************************************)
C21_ExtractedTokensFiltered ==
    Applied("extract_keywords_of_text") =>
        /\ \A i \in 1..Len(fn_ret.value) :
               /\ Len(fn_ret.value[i]) >= fn_call.min_word_length
               /\ \E j \in 1..Len(fn_ret.value[i]) :
                      fn_ret.value[i][j] \in {"v", "e"}
               /\ fn_ret.value[i] \notin {w_ve, w_de, w_kim}
        /\ IsSubsequence(fn_ret.value, findall_words(lower(fn_call.text)))

\* the tokenizer raised; of the two words of the split the stop word is
\* dropped and the other is kept
C21_Witness ==
    /\ Applied("extract_keywords_of_text")
    /\ fn_call.tokenize_raises
    /\ fn_call.min_word_length = 1
    /\ fn_call.text = <<"V", "e", ",", "_", "e">>
    /\ fn_ret.value = << <<"_", "e">> >>

(***************************************************************************)
(* C22: the n-grams are windows over the one token stream made of all the  *)
(* snippets, titles, questions and related searches after the stop words   *)
(* are removed: each returned bigram is counted once per place where its   *)
(* two tokens are neighbours in that stream, whichever fields they come    *)
(* from; when the cutoff drops none, the bigrams number (tokens - 1) in    *)
(* all, and every pair of neighbours is returned, the pair made of the     *)
(* last token of one field and the first token of the next included.       *)
(***************************************************************************)
RECURSIVE TotalCount(_)
TotalCount(entries) ==
    IF entries = <<>> THEN 0 ELSE Head(entries).count + TotalCount(Tail(entries))

NeighbourPlaces(stream, pair) ==
    {i \in 1..(Len(stream) - 1) : stream[i] = pair[1] /\ stream[i + 1] = pair[2]}

C22_NgramsOverOneStream ==
    (pc = "returned" /\ call.op = "analyze_keywords"
        /\ "most_common_bigrams" \in DOMAIN locals) =>
        LET returned == locals.most_common_bigrams
        IN  /\ \A k \in 1..Len(returned) :
                   /\ Len(returned[k].item) = 2
                   /\ returned[k].count >= 1
                   /\ returned[k].count
                          = Cardinality(NeighbourPlaces(RankedTokens, returned[k].item))
            /\ (Len(returned) < NgramCap /\ Len(RankedTokens) >= 1) =>
                   /\ TotalCount(returned) = Len(RankedTokens) - 1
                   /\ \A i \in 1..(Len(RankedTokens) - 1) :
                          \E k \in 1..Len(returned) :
                              returned[k].item = <<RankedTokens[i], RankedTokens[i + 1]>>

\* keword.py: the snippet "ev, ve kime" and the title "Ucuz ev" of one result
\* give the stream ev kime ucuz ev, and the bigram (kime, ucuz), of the last
\* token of the snippet and the first token of the title, is returned
C22_Witness ==
    /\ pc = "returned"
    /\ call.op = "analyze_keywords"
    /\ analyzer.variant = "keword"
    /\ call.search.json
           = [search_metadata |-> "Success",
              organic_results |-> << [snippet |-> T_ev_ve_kime, title |-> T_ucuz_ev] >>]
    /\ locals.filtered_keywords = <<w_ev, w_kime, w_ucuz, w_ev>>
    /\ Len(locals.most_common_bigrams) = 3
    /\ \E k \in 1..3 : locals.most_common_bigrams[k] = [item |-> <<w_kime, w_ucuz>>, count |-> 1]

(***************************************************************************)
(* C23: the two web front ends filter alike: for every candidate list and  *)
(* every filter among single, bigram and trigram, the filter by word count *)
(* of yedek.py's index selects the entries the filter by type of           *)
(* grok-1.py's and keyword2.py's index selects, the extracted n-grams of   *)
(* that size in their order and no synonym entry; with the filter "all"    *)
(* both return the list as it is.                                          *)
(***************************************************************************)
C23_FrontEndsFilterAlike ==
    Applied("index_filter") =>
        LET yedek == fn_ret.value.yedek
            typed == fn_ret.value.typed
        IN  /\ Len(yedek) = Len(typed)
            /\ \A i \in 1..Min(Len(yedek), Len(typed)) :
                   /\ yedek[i].keyword = typed[i].keyword
                   /\ yedek[i].count = typed[i].count
            /\ fn_call.filter_type # "all" =>
                   \A i \in 1..Len(yedek) : yedek[i].count # Sentinel

(***************************************************************************)
(* C24: in kalite.py, KeywordAnalyzer(serp_api_key, ...) with a key that   *)
(* is neither empty nor blank, and for which the account request answers   *)
(* 200, is constructed, with its serp_api_key set; construction is         *)
(* rejected only for an empty or blank key or a failed validation (the     *)
(* NLTK setup comes after these).                                          *)
(***************************************************************************)
UsableKey(serp_api_key) == Truthy(serp_api_key) /\ serp_api_key.str \notin {<<>>, <<" ">>}

C24_ValidKeyConstructs ==
    (call.op = "__init__" /\ call.variant = "kalite") =>
        /\ (UsableKey(call.serp_api_key) /\ call.status_200) =>
               /\ pc = "idle"
               /\ analyzer.variant = "kalite"
               /\ analyzer.serp_api_key = call.serp_api_key
        /\ pc = "rejected" => (~UsableKey(call.serp_api_key) \/ ~call.status_200)

(***************************************************************************)
(* C25: in the main loop of the batch scripts the keywords are analysed in *)
(* the order of the list; the report of a keyword is printed before the    *)
(* search call of the next keyword is issued; a failed search gives the    *)
(* report "No results found" and the loop goes on with the remaining       *)
(* keywords; and "All keyword analysis completed." is printed once, after  *)
(* the last keyword, so that no run leaves the loop before it.             *)
(***************************************************************************)
LoopEvents == <<"search", "report", "completed">>

TraceInLoopOrder ==
    \A p \in 1..Len(main.trace) :
        IF p = 3 * Len(keywords) + 1 THEN main.trace[p].ev = "all completed"
        ELSE /\ main.trace[p].ev = LoopEvents[((p - 1) % 3) + 1]
             /\ main.trace[p].keyword = keywords[((p - 1) \div 3) + 1]
             /\ (main.trace[p].ev = "report" /\ main.trace[p - 1].failed)
                    => main.trace[p].body = "no results"

C25_BatchLoopCompletes ==
    DOMAIN main # {} =>
        /\ Len(main.trace) <= 3 * Len(keywords) + 1
        /\ TraceInLoopOrder
        /\ main.at = "done" <=> Len(main.trace) = 3 * Len(keywords) + 1
        /\ main.at # "crashed"

(***************************************************************************)
(* C26: in keyword2.py, an analyze_keywords that returns its result has    *)
(* issued one search call for the keyword and one "site:" search call for  *)
(* each organic result whose link has a domain that is not empty, in the   *)
(* order of the results, and no other search call (a competitor analysis   *)
(* starts none); the keys of the competitor_analysis it returns are the    *)
(* domains listed in competitors, one entry per domain however many        *)
(* results share it.                                                       *)
(***************************************************************************)
SearchCalls == SelectSeq(requests, LAMBDA r : r.to = "serpapi")

RECURSIVE ResultDomains(_)
ResultDomains(organic_results) ==
    IF organic_results = <<>> THEN <<>>
    ELSE LET domain == IF "link" \in DOMAIN Head(organic_results)
                       THEN extract_domain_from_link(Head(organic_results).link)
                       ELSE <<>>
         IN  (IF domain = <<>> THEN <<>> ELSE <<domain>>)
             \o ResultDomains(Tail(organic_results))

SingleCandidates == SelectSeq(result.value.keywords, LAMBDA r : r.type = "single")

DistinctTokens == {locals.extracted_keywords[i] : i \in 1..Len(locals.extracted_keywords)}

C27_SuggestionsAreTopCandidates ==
    (Analyzed /\ analyzer.variant \in {"grok1", "keyword2"}) =>
        /\ Len(result.value.suggestions) = Min(3, Cardinality(DistinctTokens))
        /\ Len(result.value.suggestions) <= Len(SingleCandidates)
        /\ \A i \in 1..Min(Len(result.value.suggestions), Len(SingleCandidates)) :
               result.value.suggestions[i] = SingleCandidates[i].keyword

\* more than three distinct tokens, the third and the fourth candidate tied:
\* three suggestions, fewer than the single-word candidates
C27_Witness ==
    /\ Analyzed
    /\ analyzer.variant = "grok1"
    /\ Len(result.value.suggestions) = 3
    /\ Len(SingleCandidates) > 3
    /\ SingleCandidates[3].count = SingleCandidates[4].count
    /\ result.value.suggestions[3] = SingleCandidates[3].keyword

====
